---- MODULE Spec2Model ----
(***************************************************************************)
(* Verification model of the OVS network strategy of libcontainer          *)
(* (network/ovs.go): the table cache kept by populateCache, the session    *)
(* set up by ovs_connect, the three-operation transaction of               *)
(* addInternalPort, and the device sequence of Ovs.Initialize.             *)
(*                                                                         *)
(* Five specifications share the variables below:                          *)
(*   Spec       a createOvsInternalPort call, the remote database with its *)
(*              other clients, the notifications pushed to the session;    *)
(*   SpecCalls  two createOvsInternalPort calls in one process;            *)
(*   SpecCache  populateCache applied to arbitrary caches and updates;     *)
(*   SpecInit   Ovs.Initialize, one action per device step;                *)
(*   SpecCreate Ovs.Create around one createOvsInternalPort call, in the   *)
(*              database build (ovs.go) and the ovs-vsctl build.           *)
(* Each specification keeps the variables it does not use at rest.         *)
(***************************************************************************)
EXTENDS Integers, Sequences, FiniteSets, TLC

VARIABLES
    \* ---- the process-wide cache (ovs.go:110), used by Spec and SpecCache
    cache,
    \* ---- SpecCache: the cache before the first update, the updates applied
    cache0, applied,
    \* ---- Spec: the remote Open_vSwitch database and its row-id allocator
    db, nextUuid, remoteCommits,
    \* ---- Spec: one createOvsInternalPort call per caller; calls counts
    \*      what the call has asked of its collaborators
    pc, args, name1, err, initial, reply, calls,
    \* ---- the populateCache executions in progress, one per goroutine inside
    running,
    \* ---- Spec: per session, whether its monitor is established and the
    \*      update notifications sent to it and not yet handed to Notifier.Update
    monitoring, pending,
    \* ---- SpecInit, SpecCreate: the inputs of Ovs.Initialize / Ovs.Create,
    \*      its position, the device calls issued, the error returned
    config, networkState, ipc, issued, ierr,
    \* ---- SpecCreate: the build, the namespace pid, the loop counter i of
    \*      the ovs-vsctl build's createOvsInternalPort
    build, nspid, iter

cacheVars == <<cache0, applied>>
mainVars  == <<db, nextUuid, remoteCommits, pc, args, name1, err, initial,
               reply, calls, running, monitoring, pending>>
initVars  == <<config, networkState, ipc, issued, ierr>>
otherVars == <<build, nspid, iter>>
vars      == <<cache, cache0, applied, db, nextUuid, remoteCommits, pc, args,
               name1, err, initial, reply, calls, running, monitoring, pending,
               config, networkState, ipc, issued, ierr,
               build, nspid, iter>>

(***************************************************************************)
(* Go values.  A Go map is a function; the nil map and the empty map read  *)
(* alike and are both EmptyMap, except inside libovsdb.Row, where          *)
(* reflect.DeepEqual tells them apart: a Row carries `nil` for that.       *)
(***************************************************************************)
EmptyMap == [k \in {} |-> k]

MapSet(m, k, v) == [x \in DOMAIN m \cup {k} |-> IF x = k THEN v ELSE m[x]]

MapDelete(m, k) == [x \in DOMAIN m \ {k} |-> m[x]]

\* libovsdb.Row{Fields: f}; Row{} has a nil Fields map
Row(f) == [nil |-> FALSE, Fields |-> f]

EmptyRow == [nil |-> TRUE, Fields |-> EmptyMap]

\* reflect.DeepEqual on two Rows: a nil Fields map equals only a nil one
DeepEqual(a, b) == a.nil = b.nil /\ a.Fields = b.Fields

(***************************************************************************)
(* populateCache (ovs.go:174-189).  updates.Updates maps a table name to   *)
(* a TableUpdate, whose Rows maps a row id to a RowUpdate; only RowUpdate's*)
(* New is read.  The two range loops visit each key once, in any order.    *)
(***************************************************************************)
RECURSIVE populateRows(_, _, _)
populateRows(tbl, rows, todo) ==
    IF todo = {} THEN tbl
    ELSE LET uuid == CHOOSE u \in todo : TRUE
             row  == rows[uuid]
             tbl1 == IF ~DeepEqual(row.New, EmptyRow)
                     THEN MapSet(tbl, uuid, row.New)
                     ELSE MapDelete(tbl, uuid)
         IN populateRows(tbl1, rows, todo \ {uuid})

RECURSIVE populateTables(_, _, _)
populateTables(c, updates, todo) ==
    IF todo = {} THEN c
    ELSE LET table       == CHOOSE t \in todo : TRUE
             tableUpdate == updates.Updates[table]
             c1 == IF table \notin DOMAIN c THEN MapSet(c, table, EmptyMap) ELSE c
             c2 == MapSet(c1, table,
                          populateRows(c1[table], tableUpdate.Rows,
                                       DOMAIN tableUpdate.Rows))
         IN populateTables(c2, updates, todo \ {table})

\* a table met for the first time is created and its rows are dropped
populateCacheSkipsNewTable(c, updates) ==
    LET known == [Updates |-> [t \in DOMAIN updates.Updates |->
                     IF t \in DOMAIN c THEN updates.Updates[t]
                                       ELSE [Rows |-> EmptyMap]]]
    IN populateTables(c, known, DOMAIN known.Updates)

\* a row whose New is empty is kept instead of deleted
populateCacheKeepsDeleted(c, updates) ==
    LET kept == [Updates |-> [t \in DOMAIN updates.Updates |->
                     [Rows |-> [u \in {x \in DOMAIN updates.Updates[t].Rows :
                                         ~DeepEqual(updates.Updates[t].Rows[x].New, EmptyRow)}
                                  |-> updates.Updates[t].Rows[u]]]]]
    IN populateTables(c, kept, DOMAIN kept.Updates)

\* every row entry is stored, an empty New included
populateCacheStoresEmpty(c, updates) ==
    [t \in DOMAIN c \cup DOMAIN updates.Updates |->
        LET old  == IF t \in DOMAIN c THEN c[t] ELSE EmptyMap
            rows == IF t \in DOMAIN updates.Updates
                    THEN updates.Updates[t].Rows ELSE EmptyMap
        IN [u \in DOMAIN old \cup DOMAIN rows |->
               IF u \in DOMAIN rows THEN rows[u].New ELSE old[u]]]

populateCache(c, updates) == populateTables(c, updates, DOMAIN updates.Updates)

(***************************************************************************)
(* SpecCache: populateCache on its own.  The starting cache and the        *)
(* updates range over every cache and update with at most MaxRows row      *)
(* entries, over two tables and two row ids.  A cache never holds a Row    *)
(* that DeepEqual-s Row{}: populateCache stores no such row.               *)
(***************************************************************************)
MaxRows == 2

CacheTables == {"Bridge", "Port"}

CacheUuids == {1, 2}

RowValues == {Row(EmptyMap), Row([name |-> "br0"])}

PartialFns(D, R) == UNION {[S -> R] : S \in SUBSET D}

Entries(m) == Cardinality(UNION {{t} \X DOMAIN m[t] : t \in DOMAIN m})

Caches == {c \in PartialFns(CacheTables, PartialFns(CacheUuids, RowValues)) :
              Entries(c) <= MaxRows}

RowsOfUpdate(u) == [t \in DOMAIN u.Updates |-> u.Updates[t].Rows]

TableUpdatesSet ==
    {u \in [Updates : PartialFns(CacheTables,
                 [Rows : PartialFns(CacheUuids, [New : RowValues \cup {EmptyRow}])])] :
        Entries(RowsOfUpdate(u)) <= MaxRows}

\* the variables of Spec, at rest
MainIdle ==
    /\ db = EmptyMap /\ nextUuid = 0 /\ remoteCommits = 0
    /\ pc = EmptyMap /\ args = EmptyMap /\ name1 = EmptyMap /\ err = EmptyMap
    /\ initial = EmptyMap /\ reply = EmptyMap /\ calls = EmptyMap
    /\ running = {}
    /\ monitoring = EmptyMap /\ pending = EmptyMap

\* the variables of SpecInit, at rest
InitIdle ==
    /\ config = EmptyMap /\ networkState = EmptyMap
    /\ ipc = "none" /\ issued = <<>> /\ ierr = "<nil>"

\* the variables of SpecCache, at rest
CacheIdle == cache0 = EmptyMap /\ applied = <<>>

\* the variables of SpecCreate, at rest
OtherIdle == build = "ovsdb" /\ nspid = 0 /\ iter = 0

InitCache ==
    /\ cache \in Caches
    /\ cache0 = cache
    /\ applied = <<>>
    /\ MainIdle /\ InitIdle /\ OtherIdle

\* Notifier.Update(_, tableUpdates) on the starting cache
UpdateFirst ==
    /\ applied = <<>>
    /\ \E tableUpdates \in TableUpdatesSet :
          /\ cache' = populateCache(cache, tableUpdates)
          /\ applied' = <<tableUpdates>>
    /\ UNCHANGED <<cache0, mainVars, initVars, otherVars>>

\* Notifier.Update(_, tableUpdates) once more
UpdateSecond ==
    /\ Len(applied) = 1
    /\ \E tableUpdates \in TableUpdatesSet :
          /\ cache' = populateCache(cache, tableUpdates)
          /\ applied' = Append(applied, tableUpdates)
    /\ UNCHANGED <<cache0, mainVars, initVars, otherVars>>

NextCache == UpdateFirst \/ UpdateSecond

SpecCache == InitCache /\ [][NextCache]_vars

\* U2's per-row entries layered over U1's: every table of either update,
\* and for a row in both, U2's entry
Layer(U1, U2) ==
    [Updates |->
        [t \in DOMAIN U1.Updates \cup DOMAIN U2.Updates |->
            LET r1 == IF t \in DOMAIN U1.Updates THEN U1.Updates[t].Rows ELSE EmptyMap
                r2 == IF t \in DOMAIN U2.Updates THEN U2.Updates[t].Rows ELSE EmptyMap
            IN [Rows |-> [u \in DOMAIN r1 \cup DOMAIN r2 |->
                             IF u \in DOMAIN r2 THEN r2[u] ELSE r1[u]]]]]

\* C6: the cache after U1 then U2 is the cache after the single update that
\* layers U2's row entries over U1's, from every starting cache.
C6_LayeredUpdate ==
    Len(applied) = 2 =>
        cache = populateCache(cache0, Layer(applied[1], applied[2]))

\* C6 witness: U2 deletes a row that U1 had written into a table the
\* starting cache did not have.
C6_Witness ==
    /\ Len(applied) = 2
    /\ \E t \in DOMAIN applied[1].Updates \cap DOMAIN applied[2].Updates :
         /\ t \notin DOMAIN cache0
         /\ \E u \in DOMAIN applied[1].Updates[t].Rows \cap DOMAIN applied[2].Updates[t].Rows :
              /\ ~DeepEqual(applied[1].Updates[t].Rows[u].New, EmptyRow)
              /\ DeepEqual(applied[2].Updates[t].Rows[u].New, EmptyRow)
              /\ u \notin DOMAIN cache[t]

\* C7: applying the same update twice in a row leaves the cache as it was
\* after the first application.
C7_Idempotent ==
    (Len(applied) = 2 /\ applied[1] = applied[2]) =>
        cache = populateCache(cache0, applied[1])

\* C7 witness: an update that changed the cache has been applied twice.
C7_Witness ==
    /\ Len(applied) = 2 /\ applied[1] = applied[2]
    /\ cache # cache0
    /\ \E t \in DOMAIN applied[1].Updates : DOMAIN applied[1].Updates[t].Rows # {}

\* every row entry of the update has an empty New and names a row the cache
\* does not hold
DeletesAbsentRows(c, u) ==
    /\ \E t \in DOMAIN u.Updates : DOMAIN u.Updates[t].Rows # {}
    /\ \A t \in DOMAIN u.Updates : \A x \in DOMAIN u.Updates[t].Rows :
          /\ DeepEqual(u.Updates[t].Rows[x].New, EmptyRow)
          /\ (t \notin DOMAIN c \/ x \notin DOMAIN c[t])

\* C8 as stated: deleting rows the cache does not hold leaves the cache
\* exactly as it was, also when the row's table is not in the cache yet.
C8_DeleteAbsentIsNoop ==
    (Len(applied) = 1 /\ DeletesAbsentRows(cache0, applied[1])) => cache = cache0

\* the cache, with an empty sub-map added for each listed table it lacks
WithTables(c, ts) == [t \in DOMAIN c \cup ts |-> IF t \in DOMAIN c THEN c[t] ELSE EmptyMap]

\* C8 amended: deleting rows the cache does not hold changes no row of any
\* table; the cache afterwards is the cache before plus an empty sub-map for
\* each table of the update that had no entry.
C8_DeleteAbsentKeepsRows ==
    (Len(applied) = 1 /\ DeletesAbsentRows(cache0, applied[1])) =>
        cache = WithTables(cache0, DOMAIN applied[1].Updates)

\* C8 witness: a deletion of an absent row was applied for a table the cache
\* had no entry for, and for a table it had.
C8_Witness ==
    /\ Len(applied) = 1 /\ DeletesAbsentRows(cache0, applied[1])
    /\ \E t \in DOMAIN applied[1].Updates :
          DOMAIN applied[1].Updates[t].Rows # {} /\ t \notin DOMAIN cache0

(***************************************************************************)
(* Spec: the remote Open_vSwitch database.                                 *)
(* A row id is a number handed out by the database; a table is a map from  *)
(* row id to the row's columns.  Bridge "br0" and "br1" exist from the     *)
(* start; callers name "br0" or "br9", which never exists; the other       *)
(* client of the database works on "br1" only.                             *)
(***************************************************************************)
MaxRemote == 2

\* the two concurrent calls of createOvsInternalPort, one session each
\* (C4_BothPortsKept also holds with a third caller and MaxRemote == 0)
Callers == {1, 2}

Tables == {"Bridge", "Port", "Interface"}

EmptyDb == [t \in Tables |-> EmptyMap]

InitDb == [Bridge    |-> (1 :> [name |-> "br0", ports |-> {}]) @@
                         (2 :> [name |-> "br1", ports |-> {}]),
           Port      |-> EmptyMap,
           Interface |-> EmptyMap]

\* a database with the bridge "br0" alone
InitDbBr0 == [InitDb EXCEPT !.Bridge = [u \in {x \in DOMAIN @ : @[x].name = "br0"} |-> @[u]]]

NoErr == "<nil>"

\* libovsdb.UUID{GoUuid: g}
UUID(g) == [GoUuid |-> g]

\* libovsdb.OperationResult; the zero value stands for a JSON null entry
OperationResult(count, error, uuid) ==
    [Count |-> count, Error |-> error, Details |-> "", UUID |-> UUID(uuid)]

NullResult == OperationResult(0, "", 0)

\* rows of a table matching the condition <<column, "==", value>>
Matching(tbl, where) ==
    {u \in DOMAIN tbl : \A i \in 1 .. Len(where) : tbl[u][where[i][1]] = where[i][3]}

\* the row ids a set of named-uuid references stands for
Resolve(refs, names) == {names[r.GoUuid] : r \in refs}

Bound(refs, names) == \A r \in refs : r.GoUuid \in DOMAIN names

\* One operation of a transaction on the working copy st of the database
\* (RFC 7047 5.2.1 insert, 5.2.5 mutate, 5.2.3 update).
DbOp(st, op) ==
    CASE op.Op = "insert" ->
           LET id   == st.next
               refs == IF op.Table = "Port" THEN {op.Row.interfaces} ELSE {}
               row  == IF op.Table = "Port"
                       THEN [name |-> op.Row.name,
                             interfaces |-> Resolve(refs, st.names)]
                       ELSE op.Row
           IN IF ~Bound(refs, st.names)
              THEN [st EXCEPT !.failed = TRUE,
                       !.results = Append(@, OperationResult(0, "syntax error", 0))]
              ELSE [st EXCEPT
                       !.db[op.Table] = MapSet(@, id, row),
                       !.next = id + 1,
                       !.names = MapSet(@, op.UUIDName, id),
                       !.results = Append(@, OperationResult(0, "", id))]
      [] op.Op = "mutate" ->
           LET rows == Matching(st.db[op.Table], op.Where)
               m    == op.Mutations[1]
               set  == Resolve(m[3], st.names)
           IN IF ~Bound(m[3], st.names)
              THEN [st EXCEPT !.failed = TRUE,
                       !.results = Append(@, OperationResult(0, "syntax error", 0))]
              ELSE [st EXCEPT
                       !.db[op.Table] =
                           [u \in DOMAIN @ |->
                               IF u \in rows
                               THEN [@[u] EXCEPT ![m[1]] =
                                        IF m[2] = "insert" THEN @ \cup set ELSE @ \ set]
                               ELSE @[u]],
                       !.results = Append(@, OperationResult(Cardinality(rows), "", 0))]
      [] op.Op = "update" ->
           LET rows == Matching(st.db[op.Table], op.Where)
               set  == Resolve(op.Row.ports, st.names)
           IN [st EXCEPT
                  !.db[op.Table] =
                      [u \in DOMAIN @ |->
                          IF u \in rows THEN [@[u] EXCEPT !.ports = set] ELSE @[u]],
                  !.results = Append(@, OperationResult(Cardinality(rows), "", 0))]

\* The operations in order; the one at index fault (if any) is refused by
\* the server; after a failure the remaining results are null.
RECURSIVE DbExec(_, _, _, _)
DbExec(st, ops, i, fault) ==
    IF i > Len(ops) THEN st
    ELSE IF st.failed
         THEN DbExec([st EXCEPT !.results = Append(@, NullResult)], ops, i + 1, fault)
    ELSE IF i = fault
         THEN DbExec([st EXCEPT !.failed = TRUE,
                         !.results = Append(@, OperationResult(0, "resources exhausted", 0))],
                     ops, i + 1, fault)
    ELSE DbExec(DbOp(st, ops[i]), ops, i + 1, fault)

\* the name column of Port and of Interface is a unique index
UniqueNames(tbl) ==
    \A u, v \in DOMAIN tbl : u # v => tbl[u].name # tbl[v].name

\* The "transact" request: all operations or none.  A failure at commit
\* adds one result after those of the operations.
DbTransact(d, next, ops, fault) ==
    LET st == DbExec([db |-> d, next |-> next, names |-> EmptyMap,
                      results |-> <<>>, failed |-> FALSE], ops, 1, fault)
    IN IF st.failed
       THEN [db |-> d, next |-> next, reply |-> st.results]
       ELSE IF ~(UniqueNames(st.db.Port) /\ UniqueNames(st.db.Interface))
       THEN [db |-> d, next |-> next,
             reply |-> Append(st.results, OperationResult(0, "constraint violation", 0))]
       ELSE [db |-> st.db, next |-> st.next, reply |-> st.results]

\* rows of table t that differ between two versions of the database
Changed(old, new, t) ==
    {u \in DOMAIN old[t] \cup DOMAIN new[t] :
        u \notin DOMAIN old[t] \/ u \notin DOMAIN new[t] \/ old[t][u] # new[t][u]}

\* the <table-updates> of a commit: per changed row its new contents, or
\* no "new" at all for a deleted row
Diff(old, new) ==
    [Updates |->
        [t \in {x \in Tables : Changed(old, new, x) # {}} |->
            [Rows |-> [u \in Changed(old, new, t) |->
                [New |-> IF u \in DOMAIN new[t] THEN Row(new[t][u]) ELSE EmptyRow]]]]]

\* the reply to "monitor": every row of every table
Snapshot(d) == Diff(EmptyDb, d)

\* every monitoring session is sent the updates of a commit
Publish(old, new) ==
    [s \in Callers |-> IF monitoring[s] /\ old # new
                       THEN Append(pending[s], Diff(old, new))
                       ELSE pending[s]]

(***************************************************************************)
(* Spec: the client (ovs.go:95-213).                                       *)
(***************************************************************************)
Prefixes == {"veth"}

BridgeArgs == {"br0", "br9"}

\* the suffixes the random source can produce, cut to a few
RandomSuffixes == {"0000001", "0000002"}

\* utils.GenerateRandomName(prefix, size): the prefix and size characters
\* of random hex, or an error when the random source fails
GenerateRandomName(prefix, size) ==
    {[name |-> prefix \o x, err |-> NoErr] : x \in {y \in RandomSuffixes : Len(y) = size}}
        \cup {[name |-> "", err |-> "rand read failed"]}

namedPortUuid == "port"

namedIntfUuid == "intf"

\* intf row to insert
insertIntfOp(portName) ==
    [Op |-> "insert", Table |-> "Interface",
     Row |-> [name |-> portName, type |-> "internal"],
     UUIDName |-> namedIntfUuid]

\* port row to insert
insertPortOp(portName) ==
    [Op |-> "insert", Table |-> "Port",
     Row |-> [name |-> portName, interfaces |-> UUID(namedIntfUuid)],
     UUIDName |-> namedPortUuid]

\* the bridge's ports column is overwritten with the new port alone
mutateOpOverwrites(bridgeName) ==
    [Op |-> "update", Table |-> "Bridge",
     Row |-> [ports |-> {UUID(namedPortUuid)}],
     Where |-> << <<"name", "==", bridgeName>> >>]

\* inserting a row in Port table requires mutating the bridge table
mutateOp(bridgeName) ==
    LET mutateSet == {UUID(namedPortUuid)}
        mutation  == <<"ports", "insert", mutateSet>>
        condition == <<"name", "==", bridgeName>>
    IN [Op |-> "mutate", Table |-> "Bridge",
        Mutations |-> <<mutation>>, Where |-> <<condition>>]

operations(bridgeName, portName) ==
    <<insertIntfOp(portName), insertPortOp(portName), mutateOp(bridgeName)>>

\* What ovs.Transact can hand back: the server's answer, with any one
\* operation refused or none; that answer cut short; or nothing at all
\* (nil reply) when the call itself fails.
TransactOutcomes(d, next, ops) ==
    {DbTransact(d, next, ops, fault) : fault \in 0 .. Len(ops)}
        \cup {[DbTransact(d, next, ops, 0) EXCEPT !.reply = SubSeq(@, 1, k)] :
                 k \in 1 .. Len(ops) - 1}
        \cup {[db |-> d, next |-> next, reply |-> <<>>]}

\* the flag ok of addInternalPort after its loop over the reply
ok(rep, ops) ==
    ~ \E i \in 1 .. Len(rep) :
         \/ rep[i].Error # "" /\ i - 1 < Len(ops)
         \/ rep[i].Error # ""

\* the run-time failures that end the whole process
Panics == {"panic: nil pointer dereference", "panic: index out of range",
           "panic: assignment to entry in nil map",
           "fatal error: concurrent map writes"}

Crashed == \E p \in Callers : pc[p] \in Panics

\* A populateCache in progress: who called it, for which session, the part
\* of its argument not yet applied, the table its outer loop is at and the
\* statement it is about to execute ("range": ovs.go:175-176, "make": 177,
\* "rows": 180-186).
Execution(by, s, updates) ==
    [by |-> by, s |-> s, todo |-> updates, table |-> "", stage |-> "range"]

\* updates without row uuid of table
WithoutRow(updates, table, uuid) ==
    [Updates |-> [t \in DOMAIN updates.Updates |->
        IF t = table
        THEN [Rows |-> [u \in DOMAIN updates.Updates[t].Rows \ {uuid} |->
                           updates.Updates[t].Rows[u]]]
        ELSE updates.Updates[t]]]

\* the execution at its inner loop, or back at the outer loop when the
\* table has no row left
EnterRows(e) ==
    IF e.todo.Updates[e.table].Rows # EmptyMap
    THEN [e EXCEPT !.stage = "rows"]
    ELSE [e EXCEPT !.stage = "range", !.table = "",
                   !.todo = [Updates |-> [t \in DOMAIN e.todo.Updates \ {e.table} |->
                                             e.todo.Updates[t]]]]

\* initial before MonitorAll has returned and after ovs_connect has
NoInitial == [nil |-> TRUE, val |-> [Updates |-> EmptyMap]]

\* the process before any call, the database holding d
InitMainOn(d) ==
    /\ cache = EmptyMap
    /\ db = d
    /\ nextUuid = Cardinality(DOMAIN d.Bridge) + 1
    /\ remoteCommits = 0
    /\ pc = [p \in Callers |-> "idle"]
    /\ args = [p \in Callers |-> [prefix |-> "", bridge |-> ""]]
    /\ name1 = [p \in Callers |-> ""]
    /\ err = [p \in Callers |-> NoErr]
    /\ initial = [p \in Callers |-> NoInitial]
    /\ reply = [p \in Callers |-> <<>>]
    /\ running = {}
    /\ calls = [p \in Callers |-> [GenerateRandomName |-> 0, Transact |-> 0, Run |-> 0]]
    /\ monitoring = [p \in Callers |-> FALSE]
    /\ pending = [p \in Callers |-> <<>>]
    /\ CacheIdle /\ InitIdle /\ OtherIdle

InitMain == InitMainOn(InitDb)

\* createOvsInternalPort(prefix, bridge), up to the call of ovs_connect
createOvsInternalPortEntry(p, prefix, bridge) ==
    /\ ~Crashed
    /\ pc[p] = "idle"
    /\ \E g \in GenerateRandomName(prefix, 7) :
          /\ args' = [args EXCEPT ![p] = [prefix |-> prefix, bridge |-> bridge]]
          /\ name1' = [name1 EXCEPT ![p] = g.name]
          /\ err' = [err EXCEPT ![p] = g.err]
          /\ pc' = [pc EXCEPT ![p] = IF g.err # NoErr THEN "returned" ELSE "ovs_connect"]
    /\ calls' = [calls EXCEPT ![p].GenerateRandomName = @ + 1]
    /\ UNCHANGED <<cache, db, nextUuid, remoteCommits, running, initial, reply,
                   monitoring, pending, cacheVars>>

\* a caller calls createOvsInternalPort for one of the bridges
CreateOvsInternalPortOn(p, bridges) ==
    /\ \E prefix \in Prefixes, bridge \in bridges :
          createOvsInternalPortEntry(p, prefix, bridge)
    /\ UNCHANGED <<initVars, otherVars>>

\* a caller calls createOvsInternalPort
CreateOvsInternalPort(p) == CreateOvsInternalPortOn(p, BridgeArgs)

\* ovs_connect: the fresh channel and cache, libovsdb.Connect, Register.
\* (The channel `update` is never sent to nor received from.)
OvsConnect(p) ==
    /\ ~Crashed
    /\ pc[p] = "ovs_connect"
    /\ cache' = EmptyMap
    /\ \/ /\ pc' = [pc EXCEPT ![p] = "MonitorAll"]
          /\ UNCHANGED err
       \/ /\ err' = [err EXCEPT ![p] = "connect failed"]
          /\ pc' = [pc EXCEPT ![p] = "returned"]
    /\ UNCHANGED <<db, nextUuid, remoteCommits, args, name1, initial, reply,
                   calls, running, monitoring, pending, cacheVars, initVars, otherVars>>

\* ovs_connect: initial, _ := ovs.MonitorAll(...).  The server answers with
\* its rows as of now and sends this session every later commit; or the
\* call fails and initial is nil.
MonitorAll(p) ==
    /\ ~Crashed
    /\ pc[p] = "MonitorAll"
    /\ \/ /\ initial' = [initial EXCEPT ![p] = [nil |-> FALSE, val |-> Snapshot(db)]]
          /\ monitoring' = [monitoring EXCEPT ![p] = TRUE]
       \/ /\ initial' = [initial EXCEPT ![p] = NoInitial]
          /\ UNCHANGED monitoring
    /\ pc' = [pc EXCEPT ![p] = "populateCache"]
    /\ UNCHANGED <<cache, db, nextUuid, remoteCommits, args, name1, err, reply,
                   calls, running, pending, cacheVars, initVars, otherVars>>

\* ovs_connect: `populateCache(*initial)` is entered on the caller's
\* goroutine.  Dereferencing a nil initial panics.  The local initial ends
\* here: the execution holds its copy.
PopulateInitial(p) ==
    /\ ~Crashed
    /\ pc[p] = "populateCache"
    /\ IF initial[p].nil
       THEN /\ pc' = [pc EXCEPT ![p] = "panic: nil pointer dereference"]
            /\ UNCHANGED running
       ELSE /\ running' = running \cup {Execution("ovs_connect", p, initial[p].val)}
            /\ pc' = [pc EXCEPT ![p] = "populating"]
    /\ initial' = [initial EXCEPT ![p] = NoInitial]
    /\ UNCHANGED <<cache, db, nextUuid, remoteCommits, args, name1, err, reply,
                   calls, monitoring, pending, cacheVars, initVars, otherVars>>

\* addInternalPort(ovs, bridge, name1), ovs.go:112-155: the operations are
\* built and sent with ovs.Transact; the server answers (or the call
\* fails) and the caller waits for the reply in flight to it
AddInternalPort(p) ==
    /\ ~Crashed
    /\ pc[p] = "addInternalPort"
    /\ \E o \in TransactOutcomes(db, nextUuid,
                                 operations(args[p].bridge, name1[p])) :
          /\ db' = o.db
          /\ nextUuid' = o.next
          /\ pending' = Publish(db, o.db)
          /\ reply' = [reply EXCEPT ![p] = o.reply]
    /\ pc' = [pc EXCEPT ![p] = "Transact"]
    /\ calls' = [calls EXCEPT ![p].Transact = @ + 1]
    /\ UNCHANGED <<cache, remoteCommits, running, args, name1, err, initial,
                   monitoring, cacheVars, initVars, otherVars>>

\* ovs.go:155-171 and 106: ovs.Transact returns the reply; the loop over
\* it, the print of reply[1] when ok (a panic when the reply is shorter),
\* and the return of name1 with the err left by ovs_connect
TransactReturns(p) ==
    /\ ~Crashed
    /\ pc[p] = "Transact"
    /\ pc' = [pc EXCEPT ![p] =
                 IF ok(reply[p], operations(args[p].bridge, name1[p]))
                    /\ Len(reply[p]) < 2
                 THEN "panic: index out of range" ELSE "returned"]
    /\ UNCHANGED <<cache, db, nextUuid, remoteCommits, running, args, name1, err,
                   initial, reply, calls, monitoring, pending, cacheVars,
                   initVars, otherVars>>

\* Notifier.Update(context, tableUpdates), called on the goroutine of the
\* connection of session s with the next update sent to it: populateCache
\* is entered.  A connection hands over its updates one after the other.
NotifierUpdate(s) ==
    /\ ~Crashed
    /\ pending[s] # <<>>
    /\ ~ \E e \in running : e.by = "Notifier.Update" /\ e.s = s
    /\ running' = running \cup {Execution("Notifier.Update", s, Head(pending[s]))}
    /\ pending' = [pending EXCEPT ![s] = Tail(@)]
    /\ UNCHANGED <<cache, db, nextUuid, remoteCommits, pc, args, name1, err,
                   initial, reply, calls, monitoring, cacheVars, initVars,
                   otherVars>>

\* execution e becomes f
Becomes(e, f) == running' = (running \ {e}) \cup {f}

\* populateCache, ovs.go:175-176: the outer loop takes a table of the
\* update and looks it up in the cache
PopulateRange(e) ==
    /\ ~Crashed
    /\ e.stage = "range"
    /\ \E table \in DOMAIN e.todo.Updates :
          Becomes(e, IF table \in DOMAIN cache
                     THEN EnterRows([e EXCEPT !.table = table])
                     ELSE [e EXCEPT !.table = table, !.stage = "make"])
    /\ UNCHANGED <<cache, db, nextUuid, remoteCommits, pc, args, name1, err,
                   initial, reply, calls, monitoring, pending, cacheVars,
                   initVars, otherVars>>

\* populateCache, ovs.go:177: the table was not there when looked up
PopulateMake(e) ==
    /\ ~Crashed
    /\ e.stage = "make"
    /\ cache' = MapSet(cache, e.table, EmptyMap)
    /\ Becomes(e, EnterRows(e))
    /\ UNCHANGED <<db, nextUuid, remoteCommits, pc, args, name1, err, initial,
                   reply, calls, monitoring, pending, cacheVars, initVars,
                   otherVars>>

\* populateCache, ovs.go:180-186: one round of the inner loop.  The
\* statement reads cache[table] anew: a store into a table that is no
\* longer in the cache is a store into a nil map, a delete from it does
\* nothing.
PopulateRow(e) ==
    /\ ~Crashed
    /\ e.stage = "rows"
    /\ \E uuid \in DOMAIN e.todo.Updates[e.table].Rows :
          LET row == e.todo.Updates[e.table].Rows[uuid]
          IN /\ IF ~DeepEqual(row.New, EmptyRow)
                THEN IF e.table \in DOMAIN cache
                     THEN /\ cache' = MapSet(cache, e.table,
                                             MapSet(cache[e.table], uuid, row.New))
                          /\ UNCHANGED pc
                     ELSE /\ pc' = [pc EXCEPT ![e.s] =
                                       "panic: assignment to entry in nil map"]
                          /\ UNCHANGED cache
                ELSE /\ cache' = IF e.table \in DOMAIN cache
                                 THEN MapSet(cache, e.table,
                                             MapDelete(cache[e.table], uuid))
                                 ELSE cache
                     /\ UNCHANGED pc
             /\ Becomes(e, EnterRows([e EXCEPT !.todo = WithoutRow(@, e.table, uuid)]))
    /\ UNCHANGED <<db, nextUuid, remoteCommits, args, name1, err, initial,
                   reply, calls, monitoring, pending, cacheVars, initVars,
                   otherVars>>

\* populateCache, ovs.go:188-189: the outer loop is over.  In ovs_connect
\* the session is returned next (205).
PopulateReturn(e) ==
    /\ ~Crashed
    /\ e.stage = "range"
    /\ e.todo.Updates = EmptyMap
    /\ running' = running \ {e}
    /\ pc' = IF e.by = "ovs_connect"
             THEN [pc EXCEPT ![e.s] = "addInternalPort"] ELSE pc
    /\ UNCHANGED <<cache, db, nextUuid, remoteCommits, args, name1, err, initial,
                   reply, calls, monitoring, pending, cacheVars, initVars,
                   otherVars>>

\* two goroutines are inside populateCache on the one map: the Go run
\* time may detect it and end the process
ConcurrentMapWrites ==
    /\ ~Crashed
    /\ \E e \in running :
          /\ running \ {e} # {}
          /\ pc' = [pc EXCEPT ![e.s] = "fatal error: concurrent map writes"]
    /\ UNCHANGED <<cache, db, nextUuid, remoteCommits, running, args, name1, err,
                   initial, reply, calls, monitoring, pending, cacheVars,
                   initVars, otherVars>>

\* what another client of the database commits: bridge "br1" created,
\* given a port "eth0", or destroyed with its ports
RemoteOps(kind) ==
    CASE kind = "add-br" ->
           << [Op |-> "insert", Table |-> "Bridge",
               Row |-> [name |-> "br1", ports |-> {}], UUIDName |-> "br"] >>
      [] kind = "add-port" ->
           operations("br1", "eth0")

RemoteCommit ==
    /\ remoteCommits < MaxRemote
    /\ remoteCommits' = remoteCommits + 1
    /\ \E kind \in {"add-br", "add-port", "del-br"} :
          LET br1   == Matching(db.Bridge, << <<"name", "==", "br1">> >>)
              ports == UNION {db.Bridge[b].ports : b \in br1}
              intfs == UNION {db.Port[q].interfaces : q \in ports}
              o == IF kind = "del-br"
                   THEN [db |-> [Bridge    |-> [u \in DOMAIN db.Bridge \ br1 |-> db.Bridge[u]],
                                 Port      |-> [u \in DOMAIN db.Port \ ports |-> db.Port[u]],
                                 Interface |-> [u \in DOMAIN db.Interface \ intfs |->
                                                   db.Interface[u]]],
                         next |-> nextUuid]
                   ELSE DbTransact(db, nextUuid, RemoteOps(kind), 0)
          IN /\ (kind = "add-br") => br1 = {}
             /\ (kind # "add-br") => br1 # {}
             /\ o.db # db
             /\ db' = o.db
             /\ nextUuid' = o.next
             /\ pending' = Publish(db, o.db)
    /\ UNCHANGED <<cache, pc, args, name1, err, initial, reply, calls, running,
                   monitoring, cacheVars, initVars, otherVars>>

\* the steps of the populateCache executions in progress
PopulateSteps ==
    \E e \in running :
        \/ PopulateRange(e)
        \/ PopulateMake(e)
        \/ PopulateRow(e)
        \/ PopulateReturn(e)

\* a call of createOvsInternalPort made by caller p goes on
Proceed(p) ==
    \/ OvsConnect(p)
    \/ MonitorAll(p)
    \/ PopulateInitial(p)
    \/ AddInternalPort(p)
    \/ TransactReturns(p)
    \/ NotifierUpdate(p)

\* Spec: caller 1 calls createOvsInternalPort while other clients change
\* the database
Next ==
    \/ CreateOvsInternalPort(1)
    \/ Proceed(1)
    \/ PopulateSteps
    \/ ConcurrentMapWrites
    \/ RemoteCommit

Spec == InitMain /\ [][Next]_vars

\* SpecCalls: every caller calls createOvsInternalPort for the bridge
\* "br0", the only bridge, in one process; no other client changes the
\* database
NextCalls ==
    \/ \E p \in Callers : CreateOvsInternalPortOn(p, {"br0"}) \/ Proceed(p)
    \/ PopulateSteps
    \/ ConcurrentMapWrites

SpecCalls == InitMainOn(InitDbBr0) /\ [][NextCalls]_vars

(***************************************************************************)
(* Claims about createOvsInternalPort and the session (Spec).              *)
(***************************************************************************)
Returned(p) == pc[p] = "returned"

HasError(rep) == \E i \in 1 .. Len(rep) : rep[i].Error # ""

\* the transaction of caller p was committed: one result per operation, no
\* error, and the mutate touched a bridge row
Succeeded(p) ==
    /\ Len(reply[p]) = 3
    /\ ~HasError(reply[p])
    /\ reply[p][3].Count >= 1

BridgesNamed(d, bridgeName) == {b \in DOMAIN d.Bridge : d.Bridge[b].name = bridgeName}

\* C1: a reply with an error in any entry makes createOvsInternalPort
\* return a non-nil error.
C1_ErrorReplyIsReturned ==
    \A p \in Callers : (Returned(p) /\ HasError(reply[p])) => err[p] # NoErr

\* C2: when no Bridge row has the requested name, so that the mutate
\* matches no row and the reply carries no error, createOvsInternalPort
\* returns a non-nil error.
C2_UnattachedPortIsFailure ==
    \A p \in Callers :
        ( /\ Returned(p)
          /\ Len(reply[p]) = 3 /\ ~HasError(reply[p]) /\ reply[p][3].Count = 0
          /\ BridgesNamed(db, args[p].bridge) = {} )
        => err[p] # NoErr

\* the database holds the Interface and Port rows of the name, linked, and
\* a bridge of the given name lists the port
Provisioned(d, bridgeName, portName) ==
    \E i \in DOMAIN d.Interface, q \in DOMAIN d.Port, b \in BridgesNamed(d, bridgeName) :
        /\ d.Interface[i] = [name |-> portName, type |-> "internal"]
        /\ d.Port[q].name = portName
        /\ i \in d.Port[q].interfaces
        /\ q \in d.Bridge[b].ports

\* C3: a return without error gives the prefix followed by exactly 7
\* characters, and the database holds the Interface, the Port and the
\* bridge's reference to the Port.
C3_SuccessMeansProvisioned ==
    \A p \in Callers :
        (Returned(p) /\ err[p] = NoErr) =>
            /\ Len(name1[p]) = Len(args[p].prefix) + 7
            /\ SubSeq(name1[p], 1, Len(args[p].prefix)) = args[p].prefix
            /\ Provisioned(db, args[p].bridge, name1[p])

\* C4: when two calls against the same bridge both had their transaction
\* committed, the bridge's ports hold both new Port rows.
C4_BothPortsKept ==
    \A p, q \in Callers :
        ( /\ p # q
          /\ Returned(p) /\ Returned(q)
          /\ Succeeded(p) /\ Succeeded(q)
          /\ args[p].bridge = args[q].bridge )
        => /\ reply[p][2].UUID.GoUuid # reply[q][2].UUID.GoUuid
           /\ \E b \in BridgesNamed(db, args[p].bridge) :
                {reply[p][2].UUID.GoUuid, reply[q][2].UUID.GoUuid}
                    \subseteq db.Bridge[b].ports

\* C4 witness: two calls on "br0" have both returned after a committed
\* transaction, and each session was monitoring before either transaction
\* (both are still owed the updates of both commits).
C4_Witness ==
    /\ Returned(1) /\ Returned(2)
    /\ Succeeded(1) /\ Succeeded(2)
    /\ args[1].bridge = "br0" /\ args[2].bridge = "br0"
    /\ Cardinality(db.Bridge[1].ports) = 2
    /\ remoteCommits = 0
    /\ Len(pending[1]) = 2 /\ Len(pending[2]) = 2

\* the cache's rows of every table are the database's
Mirrors(c, d) ==
    \A t \in Tables :
        (IF t \in DOMAIN c THEN c[t] ELSE EmptyMap) = [u \in DOMAIN d[t] |-> Row(d[t][u])]

\* ovs_connect has returned a session to caller s
Connected(s) ==
    pc[s] \in {"addInternalPort", "Transact", "returned"} /\ monitoring[s]

\* C5: once ovs_connect has returned and every update sent to the session
\* has been applied, the cache holds the database's rows (no other call of
\* createOvsInternalPort having been made).
C5_CacheMirrorsDatabase ==
    \A s \in Callers :
        ( /\ Connected(s)
          /\ pending[s] = <<>>
          /\ ~ \E e \in running : e.s = s
          /\ \A q \in Callers \ {s} : pc[q] = "idle" )
        => Mirrors(cache, db)

(***************************************************************************)
(* SpecInit: Ovs.Initialize(config, networkState) (ovs.go:51-93), one      *)
(* action per device call.  Each call the code makes is recorded in        *)
(* `issued` with its outcome; the device layer may fail any call.          *)
(***************************************************************************)
defaultDevice == "eth0"

DeviceErr == "operation not permitted"

Configs ==
    [MacAddress  : {"", "aa:bb:cc:dd:ee:ff"},
     Address     : {"10.0.0.5/24"},
     IPv6Address : {"", "fd00::5/64"},
     Mtu         : {1500},
     Gateway     : {"", "10.0.0.1"},
     IPv6Gateway : {"", "fd00::1"}]

NetworkStates == [OvsPort : {"", "veth0000001"}]

\* a call of the device layer: the function, the device, the value
DeviceCall(op, dev, arg) == [op |-> op, dev |-> dev, arg |-> arg, failed |-> FALSE]

InitInit ==
    /\ config \in Configs
    /\ networkState \in NetworkStates
    /\ ipc = "Initialize"
    /\ issued = <<>>
    /\ ierr = NoErr
    /\ cache = EmptyMap /\ CacheIdle /\ MainIdle /\ OtherIdle

\* `if err := call; err != nil { return fmt.Errorf(msg) }`, then on to next
Issue(here, call, msg, next) ==
    /\ ipc = here
    /\ \/ /\ issued' = Append(issued, call)
          /\ ipc' = next
          /\ UNCHANGED ierr
       \/ /\ issued' = Append(issued, [call EXCEPT !.failed = TRUE])
          /\ ierr' = msg
          /\ ipc' = "returned"
    /\ UNCHANGED <<config, networkState, cache, cacheVars, mainVars, otherVars>>

\* the error of the call is dropped and the sequence goes on
IssueUnchecked(here, call, msg, next) ==
    /\ ipc = here
    /\ \/ issued' = Append(issued, call)
       \/ issued' = Append(issued, [call EXCEPT !.failed = TRUE])
    /\ ipc' = next
    /\ UNCHANGED ierr
    /\ UNCHANGED <<config, networkState, cache, cacheVars, mainVars, otherVars>>

\* an optional step whose value is empty
Skip(here, next) ==
    /\ ipc = here
    /\ ipc' = next
    /\ UNCHANGED <<issued, ierr, config, networkState, cache, cacheVars, mainVars, otherVars>>

\* ovs.go:52-55
InitializeEntry ==
    /\ ipc = "Initialize"
    /\ IF networkState.OvsPort = ""
       THEN ierr' = "ovsPort is not specified" /\ ipc' = "returned"
       ELSE ipc' = "InterfaceDown" /\ UNCHANGED ierr
    /\ UNCHANGED <<issued, config, networkState, cache, cacheVars, mainVars, otherVars>>

\* ovs.go:56-58
InterfaceDownStep ==
    Issue("InterfaceDown",
          DeviceCall("InterfaceDown", networkState.OvsPort, ""),
          "interface down " \o networkState.OvsPort \o " " \o DeviceErr,
          "ChangeInterfaceName")

\* ovs.go:59-61
ChangeInterfaceNameStep ==
    Issue("ChangeInterfaceName",
          DeviceCall("ChangeInterfaceName", networkState.OvsPort, defaultDevice),
          "change " \o networkState.OvsPort \o " to " \o defaultDevice \o " " \o DeviceErr,
          "SetInterfaceMac")

\* the MAC is set whether configured or not
SetInterfaceMacAlways ==
    Issue("SetInterfaceMac",
          DeviceCall("SetInterfaceMac", defaultDevice, config.MacAddress),
          "set " \o defaultDevice \o " mac " \o DeviceErr,
          "SetInterfaceIp")

\* ovs.go:62-66
SetInterfaceMacStep ==
    IF config.MacAddress # ""
    THEN Issue("SetInterfaceMac",
               DeviceCall("SetInterfaceMac", defaultDevice, config.MacAddress),
               "set " \o defaultDevice \o " mac " \o DeviceErr,
               "SetInterfaceIp")
    ELSE Skip("SetInterfaceMac", "SetInterfaceIp")

\* ovs.go:67-69
SetInterfaceIpStep ==
    Issue("SetInterfaceIp",
          DeviceCall("SetInterfaceIp", defaultDevice, config.Address),
          "set " \o defaultDevice \o " ip " \o DeviceErr,
          "SetInterfaceIp6")

\* ovs.go:70-74
SetInterfaceIp6Step ==
    IF config.IPv6Address # ""
    THEN Issue("SetInterfaceIp6",
               DeviceCall("SetInterfaceIp", defaultDevice, config.IPv6Address),
               "set " \o defaultDevice \o " ipv6 " \o DeviceErr,
               "SetMtu")
    ELSE Skip("SetInterfaceIp6", "SetMtu")

\* the error of SetMtu is not looked at
SetMtuUnchecked ==
    IssueUnchecked("SetMtu",
          DeviceCall("SetMtu", defaultDevice, config.Mtu),
          "set " \o defaultDevice \o " mtu to " \o ToString(config.Mtu) \o " " \o DeviceErr,
          "InterfaceUp")

\* ovs.go:76-78
SetMtuStep ==
    Issue("SetMtu",
          DeviceCall("SetMtu", defaultDevice, config.Mtu),
          "set " \o defaultDevice \o " mtu to " \o ToString(config.Mtu) \o " " \o DeviceErr,
          "InterfaceUp")

\* ovs.go:79-81
InterfaceUpStep ==
    Issue("InterfaceUp",
          DeviceCall("InterfaceUp", defaultDevice, ""),
          defaultDevice \o " up " \o DeviceErr,
          "SetDefaultGateway")

\* ovs.go:82-86
SetDefaultGatewayStep ==
    IF config.Gateway # ""
    THEN Issue("SetDefaultGateway",
               DeviceCall("SetDefaultGateway", defaultDevice, config.Gateway),
               "set gateway to " \o config.Gateway \o " on device " \o defaultDevice
                   \o " failed with " \o DeviceErr,
               "SetDefaultGateway6")
    ELSE Skip("SetDefaultGateway", "SetDefaultGateway6")

\* ovs.go:87-92
SetDefaultGateway6Step ==
    IF config.IPv6Gateway # ""
    THEN Issue("SetDefaultGateway6",
               DeviceCall("SetDefaultGateway", defaultDevice, config.IPv6Gateway),
               "set gateway for ipv6 to " \o config.IPv6Gateway \o " on device "
                   \o defaultDevice \o " failed with " \o DeviceErr,
               "returned")
    ELSE Skip("SetDefaultGateway6", "returned")

NextInit ==
    \/ InitializeEntry
    \/ InterfaceDownStep
    \/ ChangeInterfaceNameStep
    \/ SetInterfaceMacStep
    \/ SetInterfaceIpStep
    \/ SetInterfaceIp6Step
    \/ SetMtuStep
    \/ InterfaceUpStep
    \/ SetDefaultGatewayStep
    \/ SetDefaultGateway6Step

SpecInit == InitInit /\ [][NextInit]_vars

\* the sequence s without the calls whose value is empty
RECURSIVE Configured(_)
Configured(s) ==
    IF s = <<>> THEN <<>>
    ELSE IF Head(s).arg = "" THEN Configured(Tail(s))
    ELSE <<Head(s)>> \o Configured(Tail(s))

\* the device calls of a finalization in which every step succeeds
FinalizeSequence(cfg, port) ==
    << DeviceCall("InterfaceDown", port, "-"),
       DeviceCall("ChangeInterfaceName", port, defaultDevice) >>
    \o Configured(<< DeviceCall("SetInterfaceMac", defaultDevice, cfg.MacAddress) >>)
    \o << DeviceCall("SetInterfaceIp", defaultDevice, cfg.Address) >>
    \o Configured(<< DeviceCall("SetInterfaceIp", defaultDevice, cfg.IPv6Address) >>)
    \o << DeviceCall("SetMtu", defaultDevice, "-"),
          DeviceCall("InterfaceUp", defaultDevice, "-") >>
    \o Configured(<< DeviceCall("SetDefaultGateway", defaultDevice, cfg.Gateway),
                     DeviceCall("SetDefaultGateway", defaultDevice, cfg.IPv6Gateway) >>)

SameCall(a, b) ==
    /\ a.op = b.op
    /\ a.dev = b.dev
    /\ (a.op \in {"SetInterfaceMac", "SetInterfaceIp", "ChangeInterfaceName",
                  "SetDefaultGateway"} => a.arg = b.arg)

\* C9: when every step succeeds, the device calls are, in this order: down
\* on the prior port name, rename to the canonical device, MAC, address,
\* IPv6 address, MTU, up, gateway, IPv6 gateway; each of the four optional
\* ones is there exactly when its configuration value is non-empty.
C9_StepOrder ==
    (ipc = "returned" /\ ierr = NoErr) =>
        LET want == FinalizeSequence(config, networkState.OvsPort)
        IN /\ Len(issued) = Len(want)
           /\ \A i \in 1 .. Len(want) : SameCall(issued[i], want[i])
           /\ \A i \in 1 .. Len(issued) : issued[i].op = "SetMtu" => issued[i].arg = config.Mtu

\* C9 witness: a finalization without MAC and gateway, with the IPv6
\* address and gateway, has returned nil.
C9_Witness ==
    /\ ipc = "returned" /\ ierr = NoErr
    /\ config.MacAddress = "" /\ config.Gateway = ""
    /\ config.IPv6Address # "" /\ config.IPv6Gateway # ""
    /\ Len(issued) = 7

\* C10: a failed device call is the last one issued and Initialize has then
\* returned a non-nil error; with an empty OvsPort, Initialize returns an
\* error and issues no device call.
C10_FailFast ==
    /\ \A i \in 1 .. Len(issued) :
          issued[i].failed => (i = Len(issued) /\ ipc = "returned" /\ ierr # NoErr)
    /\ networkState.OvsPort = "" =>
          /\ issued = <<>>
          /\ ipc = "returned" => ierr # NoErr

\* C10 witness: SetMtu, the fourth call of a finalization without MAC and
\* IPv6 address, failed and Initialize has returned.
C10_Witness ==
    /\ ipc = "returned"
    /\ Len(issued) = 4
    /\ issued[4].failed
    /\ issued[4].op = "SetMtu"

(***************************************************************************)
(* SpecCreate: Ovs.Create(n, nspid, networkState) (ovs.go:20-49 and        *)
(* part_000:18-45) around one call of createOvsInternalPort, made by       *)
(* caller 1.  In the build "ovsdb" the call is the one of Spec             *)
(* (ovs.go:97-107); in the build "vsctl" it is the loop around the         *)
(* ovs-vsctl command (part_000:93-109).  Create's n is `config`.           *)
(***************************************************************************)
Builds == {"ovsdb", "vsctl"}

CreateConfigs ==
    [Bridge     : {"", "br0", "br9"},
     VethPrefix : {"", "veth"},
     Mtu        : {1500}]

NsPids == {4242}

\* the bound of the loop `for i := 0; i < 10; i++`
LoopLimit == 10

InitCreate ==
    /\ build \in Builds
    /\ config \in CreateConfigs
    /\ nspid \in NsPids
    /\ networkState \in [OvsPort : {"", "veth0000009"}]
    /\ ipc = "Create"
    /\ issued = <<>>
    /\ ierr = NoErr
    /\ iter = 0
    /\ running = {}
    /\ cache = EmptyMap
    /\ db = InitDb
    /\ nextUuid = Cardinality(DOMAIN InitDb.Bridge) + 1
    /\ remoteCommits = 0
    /\ pc = [p \in Callers |-> "idle"]
    /\ args = [p \in Callers |-> [prefix |-> "", bridge |-> ""]]
    /\ name1 = [p \in Callers |-> ""]
    /\ err = [p \in Callers |-> NoErr]
    /\ initial = [p \in Callers |-> NoInitial]
    /\ reply = [p \in Callers |-> <<>>]
    /\ calls = [p \in Callers |-> [GenerateRandomName |-> 0, Transact |-> 0, Run |-> 0]]
    /\ monitoring = [p \in Callers |-> FALSE]
    /\ pending = [p \in Callers |-> <<>>]
    /\ CacheIdle

\* the bridge is checked, the prefix is not
CreateEntryBridgeOnly ==
    /\ ipc = "Create"
    /\ IF config.Bridge = ""
       THEN ierr' = "bridge is not specified" /\ ipc' = "returned"
       ELSE ipc' = "createOvsInternalPort" /\ UNCHANGED ierr
    /\ UNCHANGED <<issued, config, networkState, cache, cacheVars, mainVars, otherVars>>

\* ovs.go:21-30
CreateEntry ==
    /\ ipc = "Create"
    /\ IF config.Bridge = ""
       THEN ierr' = "bridge is not specified" /\ ipc' = "returned"
       ELSE IF config.VethPrefix = ""
       THEN ierr' = "veth prefix is not specified" /\ ipc' = "returned"
       ELSE ipc' = "createOvsInternalPort" /\ UNCHANGED ierr
    /\ UNCHANGED <<issued, config, networkState, cache, cacheVars, mainVars, otherVars>>

\* ovs.go:31, database build: the call of createOvsInternalPort; it goes
\* on with OvsConnect, MonitorAll, PopulateInitial and AddInternalPort
CreateCallsOvsdb ==
    /\ build = "ovsdb"
    /\ ipc = "createOvsInternalPort"
    /\ createOvsInternalPortEntry(1, config.VethPrefix, config.Bridge)
    /\ UNCHANGED <<initVars, otherVars>>

\* part_000:29 and 93, ovs-vsctl build: the call of createOvsInternalPort
\* and its `i := 0`
CreateCallsVsctl ==
    /\ build = "vsctl"
    /\ ipc = "createOvsInternalPort"
    /\ pc[1] = "idle"
    /\ args' = [args EXCEPT ![1] = [prefix |-> config.VethPrefix, bridge |-> config.Bridge]]
    /\ iter' = 0
    /\ pc' = [pc EXCEPT ![1] = "for"]
    /\ UNCHANGED <<cache, db, nextUuid, remoteCommits, name1, err, initial, reply,
                   calls, running, monitoring, pending, cacheVars, initVars,
                   build, nspid>>

\* part_000:94 and 109: `i < 10`, and the return after the loop
VsctlFor ==
    /\ pc[1] = "for"
    /\ pc' = [pc EXCEPT ![1] = IF iter < LoopLimit THEN "GenerateRandomName"
                                                 ELSE "returned"]
    /\ UNCHANGED <<cache, db, nextUuid, remoteCommits, args, name1, err, initial,
                   reply, calls, running, monitoring, pending, cacheVars, initVars,
                   otherVars>>

\* part_000:95-97
VsctlGenerate ==
    /\ pc[1] = "GenerateRandomName"
    /\ \E g \in GenerateRandomName(args[1].prefix, 7) :
          /\ name1' = [name1 EXCEPT ![1] = g.name]
          /\ err' = [err EXCEPT ![1] = g.err]
          /\ pc' = [pc EXCEPT ![1] = IF g.err # NoErr THEN "returned" ELSE "cmd.Run"]
    /\ calls' = [calls EXCEPT ![1].GenerateRandomName = @ + 1]
    /\ UNCHANGED <<cache, db, nextUuid, remoteCommits, running, args, initial, reply,
                   monitoring, pending, cacheVars, initVars, otherVars>>

\* What `ovs-vsctl add-port bridge name -- set Interface name type=internal`
\* can do: add the port to an existing bridge, or fail and leave the
\* database as it was (also when the command cannot be run at all).
VsctlOutcomes(d, next, bridge, name) ==
    LET t == DbTransact(d, next, operations(bridge, name), 0)
    IN  {[db |-> d, next |-> next, err |-> "exit status 1"]}
            \cup IF Len(t.reply) = 3 /\ ~HasError(t.reply) /\ t.reply[3].Count >= 1
                 THEN {[db |-> t.db, next |-> t.next, err |-> NoErr]}
                 ELSE {}

\* cmd.Run() fails: `return name1, fmt.Errorf(...)`
VsctlRunFails(o) ==
    /\ o.err # NoErr
    /\ err' = [err EXCEPT ![1] = "create ovs port " \o name1[1] \o " on "
                                  \o args[1].bridge \o " failed with " \o o.err]
    /\ pc' = [pc EXCEPT ![1] = "returned"]
    /\ UNCHANGED iter

\* the loop goes round again after a command that succeeded
VsctlRunNoBreak ==
    /\ pc[1] = "cmd.Run"
    /\ \E o \in VsctlOutcomes(db, nextUuid, args[1].bridge, name1[1]) :
          /\ db' = o.db
          /\ nextUuid' = o.next
          /\ \/ VsctlRunFails(o)
             \/ /\ o.err = NoErr
                /\ err' = [err EXCEPT ![1] = NoErr]
                /\ iter' = iter + 1
                /\ pc' = [pc EXCEPT ![1] = "for"]
    /\ calls' = [calls EXCEPT ![1].Run = @ + 1]
    /\ UNCHANGED <<cache, remoteCommits, running, args, name1, initial, reply,
                   monitoring, pending, cacheVars, initVars, build, nspid>>

\* part_000:100-106: the command is run; on failure the wrapped error is
\* returned, on success `break` leaves the loop and line 109 returns
VsctlRun ==
    /\ pc[1] = "cmd.Run"
    /\ \E o \in VsctlOutcomes(db, nextUuid, args[1].bridge, name1[1]) :
          /\ db' = o.db
          /\ nextUuid' = o.next
          /\ \/ VsctlRunFails(o)
             \/ /\ o.err = NoErr
                /\ err' = [err EXCEPT ![1] = NoErr]
                /\ pc' = [pc EXCEPT ![1] = "returned"]
                /\ UNCHANGED iter
    /\ calls' = [calls EXCEPT ![1].Run = @ + 1]
    /\ UNCHANGED <<cache, remoteCommits, running, args, name1, initial, reply,
                   monitoring, pending, cacheVars, initVars, build, nspid>>

\* the port name is stored as soon as createOvsInternalPort has returned
CreateResumeStoresName ==
    /\ ipc = "createOvsInternalPort"
    /\ pc[1] = "returned"
    /\ IF err[1] # NoErr
       THEN ierr' = err[1] /\ ipc' = "returned"
       ELSE ipc' = "SetMtu" /\ UNCHANGED ierr
    /\ networkState' = [networkState EXCEPT !.OvsPort = name1[1]]
    /\ UNCHANGED <<issued, config, cache, cacheVars, mainVars, otherVars>>

\* ovs.go:31-36: createOvsInternalPort has returned (name, err)
CreateResume ==
    /\ ipc = "createOvsInternalPort"
    /\ pc[1] = "returned"
    /\ IF err[1] # NoErr
       THEN ierr' = err[1] /\ ipc' = "returned"
       ELSE ipc' = "SetMtu" /\ UNCHANGED ierr
    /\ UNCHANGED <<issued, config, networkState, cache, cacheVars, mainVars, otherVars>>

\* ovs.go:37-39
CreateSetMtuStep ==
    Issue("SetMtu", DeviceCall("SetMtu", name1[1], config.Mtu), DeviceErr,
             "InterfaceUp")

\* the interface is brought up and its error dropped
CreateInterfaceUpUnchecked ==
    IssueUnchecked("InterfaceUp", DeviceCall("InterfaceUp", name1[1], ""), DeviceErr,
                      "SetInterfaceInNamespacePid")

\* ovs.go:40-42
CreateInterfaceUpStep ==
    Issue("InterfaceUp", DeviceCall("InterfaceUp", name1[1], ""), DeviceErr,
             "SetInterfaceInNamespacePid")

\* ovs.go:43-45
CreateSetNsStep ==
    Issue("SetInterfaceInNamespacePid",
             DeviceCall("SetInterfaceInNamespacePid", name1[1], nspid), DeviceErr,
             "OvsPort")

\* ovs.go:46-48
CreateStoreOvsPort ==
    /\ ipc = "OvsPort"
    /\ networkState' = [networkState EXCEPT !.OvsPort = name1[1]]
    /\ ipc' = "returned"
    /\ UNCHANGED <<issued, ierr, config, cache, cacheVars, mainVars, otherVars>>

NextCreate ==
    \/ CreateEntry
    \/ CreateCallsOvsdb
    \/ OvsConnect(1)
    \/ MonitorAll(1)
    \/ PopulateInitial(1)
    \/ AddInternalPort(1)
    \/ TransactReturns(1)
    \/ NotifierUpdate(1)
    \/ PopulateSteps
    \/ ConcurrentMapWrites
    \/ RemoteCommit
    \/ CreateCallsVsctl
    \/ VsctlFor
    \/ VsctlGenerate
    \/ VsctlRun
    \/ CreateResume
    \/ CreateSetMtuStep
    \/ CreateInterfaceUpStep
    \/ CreateSetNsStep
    \/ CreateStoreOvsPort

SpecCreate == InitCreate /\ [][NextCreate]_vars

(***************************************************************************)
(* Claims checked under SpecCreate.                                        *)
(***************************************************************************)
\* Create has returned
CreateReturned == ipc = "returned"

\* the k-th device call of Create is the one the code makes at that place
CreateCallAt(k) ==
    /\ issued[k].dev = name1[1]
    /\ \/ k = 1 /\ issued[k].op = "SetMtu" /\ issued[k].arg = config.Mtu
       \/ k = 2 /\ issued[k].op = "InterfaceUp"
       \/ k = 3 /\ issued[k].op = "SetInterfaceInNamespacePid" /\ issued[k].arg = nspid

\* C11: Create issues device calls only after createOvsInternalPort has
\* returned without error, in the order SetMtu(name, n.Mtu),
\* InterfaceUp(name), SetInterfaceInNamespacePid(name, nspid); a failed call
\* is the last one issued and its error is what Create returns; Create
\* returns nil only after all three.
C11_CreateStepOrder ==
    /\ issued # <<>> => (pc[1] = "returned" /\ err[1] = NoErr)
    /\ Len(issued) <= 3
    /\ \A k \in 1 .. Len(issued) :
          /\ CreateCallAt(k)
          /\ issued[k].failed =>
                (k = Len(issued) /\ CreateReturned /\ ierr = DeviceErr)
    /\ (CreateReturned /\ ierr = NoErr) =>
          (Len(issued) = 3 /\ \A k \in 1 .. 3 : ~issued[k].failed)

\* Create stopped at a failed InterfaceUp in one run and returned nil after
\* the three calls in another; this is the first
C11_Witness ==
    /\ CreateReturned
    /\ Len(issued) = 2
    /\ issued[2].op = "InterfaceUp" /\ issued[2].failed
    /\ ierr = DeviceErr

\* C12: networkState is written only by the step on which Create returns
\* nil, that step stores the name createOvsInternalPort returned in
\* OvsPort, and no other step (so no error return) changes networkState.
C12_OvsPortIffNil ==
    [][ /\ (ipc # "returned" /\ ipc' = "returned" /\ ierr' = NoErr)
            => networkState'.OvsPort = name1[1]
        /\ networkState' # networkState
            => (ipc # "returned" /\ ipc' = "returned" /\ ierr' = NoErr) ]_vars

\* Create returned nil in the ovs-vsctl build and OvsPort holds the new name
C12_Witness ==
    /\ CreateReturned /\ ierr = NoErr
    /\ build = "vsctl"
    /\ name1[1] \in {"veth" \o x : x \in RandomSuffixes}
    /\ networkState.OvsPort = name1[1]

\* C13: with an empty bridge name or an empty prefix Create does nothing but
\* return an error: no name is generated, no connection, transaction or
\* command is started, no device call is issued.
C13_InvalidConfigNoEffect ==
    (config.Bridge = "" \/ config.VethPrefix = "") =>
        /\ ipc \in {"Create", "returned"}
        /\ CreateReturned => ierr \in {"bridge is not specified",
                                       "veth prefix is not specified"}
        /\ pc[1] = "idle"
        /\ calls[1] = [GenerateRandomName |-> 0, Transact |-> 0, Run |-> 0]
        /\ ~monitoring[1]
        /\ cache = EmptyMap /\ running = {}
        /\ issued = <<>>

\* Create was given a bridge and no prefix, and has returned
C13_Witness ==
    /\ config.Bridge = "br0" /\ config.VethPrefix = ""
    /\ CreateReturned
    /\ ierr = "veth prefix is not specified"

\* C20: one call of createOvsInternalPort generates at most one name and
\* makes at most one provisioning attempt (one Transact in the database
\* build, one run of ovs-vsctl in the other), and the loop of the ovs-vsctl
\* build never goes round a second time, far below its limit.
C20_NothingRetried ==
    /\ calls[1].GenerateRandomName <= 1
    /\ calls[1].Transact + calls[1].Run <= 1
    /\ iter = 0 /\ iter < LoopLimit
    /\ (build = "ovsdb" => calls[1].Run = 0)
    /\ (build = "vsctl" => calls[1].Transact = 0)

\* the one ovs-vsctl run failed and createOvsInternalPort returned the error
C20_Witness ==
    /\ build = "vsctl"
    /\ pc[1] = "returned"
    /\ err[1] # NoErr
    /\ calls[1] = [GenerateRandomName |-> 1, Transact |-> 0, Run |-> 1]

(***************************************************************************)
(* Further claims checked under Spec.                                      *)
(***************************************************************************)
\* addInternalPort of caller p got through its `if ok` branch and printed
\* "Port Addition Successful"
ReportedSuccessful(p) ==
    /\ Returned(p)
    /\ calls[p].Transact = 1
    /\ ok(reply[p], operations(args[p].bridge, name1[p]))

\* C14: a reply with fewer entries than the three operations submitted is
\* never reported as a successful port addition, even when no entry in it
\* carries an error.
C14_ShortReplyIsFailure ==
    \A p \in Callers :
        (Returned(p) /\ calls[p].Transact = 1
           /\ Len(reply[p]) < Len(operations(args[p].bridge, name1[p])))
        => ~ReportedSuccessful(p)

\* C15: whatever reply Transact hands back, addInternalPort never reads an
\* index outside it: the branch that reads reply[1] is taken only with a
\* reply of at least two entries.
C15_NoReadOutsideReply ==
    \A p \in Callers : pc[p] # "panic: index out of range"

\* C16: when MonitorAll fails, ovs_connect does not go on to
\* populateCache(*initial) without a snapshot; it returns an error.
C16_MonitorFailureIsFatal ==
    \A p \in Callers :
        /\ pc[p] = "populateCache" => ~initial[p].nil
        /\ pc[p] # "panic: nil pointer dereference"

\* ovs_connect of session s holds a snapshot it has not finished applying
SnapshotOutstanding(s) ==
    \/ pc[s] = "populateCache" /\ ~initial[s].nil
    \/ pc[s] = "populating"

\* C17: between MonitorAll handing the snapshot to ovs_connect and the end
\* of populateCache(*initial), no Notifier.Update of that session writes
\* to the cache.
C17_SnapshotBeforeUpdates ==
    [][ \A s \in Callers :
           SnapshotOutstanding(s)
           => ~ \E e \in running :
                   /\ e.by = "Notifier.Update" /\ e.s = s
                   /\ e \notin running'
                   /\ cache' # cache ]_vars

\* C19: when ovs_connect is entered while another session's notifier is
\* registered, the rows the cache holds for that session stay in the cache.
C19_SessionsDoNotInterfere ==
    [][ \A p \in Callers :
           ( /\ pc[p] = "ovs_connect" /\ pc'[p] # "ovs_connect"
             /\ \E s \in Callers \ {p} : monitoring[s] )
           => \A t \in DOMAIN cache :
                 t \in DOMAIN cache' /\ \A u \in DOMAIN cache[t] :
                                           u \in DOMAIN cache'[t] ]_vars

\* C18: at no time are two populateCache executions in progress on the
\* cache at once.
C18_CacheAccessExclusive == Cardinality(running) <= 1

====
